---- MODULE Spec2Model ----
(***************************************************************************)
(* Model of Purple: the LLVM-IR emission core (src/translate/llvm.c) with  *)
(* the virtual-register counter, the loaded-register list, the             *)
(* free-register stack and the output file; the translation driver; the    *)
(* scanner (src/scan.c) as driven by init and the parser; and the          *)
(* toolchain functions (src/utils/clang.c). One action per function call,  *)
(* one specification per part.                                             *)
(***************************************************************************)
EXTENDS Integers, Sequences, FiniteSets, TLC

\* ------------------------------------------------------------------ bounds
\* largest number of lines written to the output while operations are called freely
MaxOut == 2

\* largest number of literal operands of a translated expression
MaxLeaves == 3

\* largest number of pieces (single characters or the keyword) of an input file
MaxPieces == 3

\* largest number of error messages logged by the toolchain functions
MaxLog == 3

\* ------------------------------------------------------------ program data
\* first identifier issued in a function body (%0 names the entry block)
FirstRegister == 1
\* numberTypeByteSizes[NT_INT32]
numberTypeByteSizes == 4

TokenType ==
    {"T_EOF", "T_PLUS", "T_MINUS", "T_STAR", "T_SLASH", "T_EXPONENT",
     "T_INTEGER_LITERAL", "T_SEMICOLON", "T_PRINT"}

BinaryArithmeticTokens == {"T_PLUS", "T_MINUS", "T_STAR", "T_SLASH"}

\* the literal value stored when the operations are called freely
Literals == {7}

\* the registers named in the arguments of the operations called freely
OperandRegisters == {1, 2}

\* numbers of literal operands whose stack entries exist when the operations
\* are called freely
PreallocatedSlots == {0, 1}

\* tokens handed to llvm_binary_arithmetic besides the four supported ones:
\* exponentiation and one token that is no binary operator
UnsupportedTokens == {"T_EXPONENT", "T_SEMICOLON"}

\* the literal operands of a translated expression, left to right
LiteralOperands == <<10, 3, 2, 7, 5>>

\* the operator tokens the parser puts in a binary-expression node
ASTOperators == BinaryArithmeticTokens \cup {"T_EXPONENT"}

\* ASTNode: <<T_INTEGER_LITERAL, value>> or <<operator, left, right>>
RECURSIVE Trees(_)
Trees(lits) ==
    IF Len(lits) = 1
    THEN {<<"T_INTEGER_LITERAL", lits[1]>>}
    ELSE UNION {{<<o, l, r>> : o \in ASTOperators,
                               l \in Trees(SubSeq(lits, 1, k)),
                               r \in Trees(SubSeq(lits, k + 1, Len(lits)))} :
                k \in 1..(Len(lits) - 1)}

ASTs == UNION {Trees(SubSeq(LiteralOperands, 1, n)) : n \in 2..MaxLeaves}

IsLeaf(n) == n[1] = "T_INTEGER_LITERAL"

RECURSIVE CountLeaves(_)
CountLeaves(n) == IF IsLeaf(n) THEN 1 ELSE CountLeaves(n[2]) + CountLeaves(n[3])

\* LLVMValue: a register tagged as holding a value or a pointer to a stack slot
LLVMVALUE_VIRTUAL_REGISTER(r) == [type |-> "VIRTUAL_REGISTER", reg |-> r]
LLVMVALUE_VIRTUAL_REGISTER_POINTER(r) == [type |-> "VIRTUAL_REGISTER_POINTER", reg |-> r]
NoValue == [type |-> "NONE", reg |-> 0]

\* the value references handed to llvm_binary_arithmetic
ValueReferences == {LLVMVALUE_VIRTUAL_REGISTER(r) : r \in OperandRegisters}

\* the register arrays handed to llvm_ensure_registers_loaded (n_registers <= 2)
RegisterArrays ==
    {<<>>} \cup {<<a>> : a \in OperandRegisters}
           \cup {<<a, b>> : a \in OperandRegisters, b \in OperandRegisters}

\* ---------------------------------------------------- lines of the output
\* one record per line written by fprintf(D_LLVM_FILE, ...)
Line(o, d, x, y) == [op |-> o, dst |-> d, x |-> x, y |-> y]
LoadLine(dst, addr) == Line("load", dst, addr, 0)
ArithLine(mnemonic, dst, left, right) == Line(mnemonic, dst, left, right)
StoreLine(value, ptr) == Line("store", 0, value, ptr)
AllocaLine(reg, align) == Line("alloca", reg, align, 0)
CallPrintfLine(arg) == Line("call", 0, arg, 0)
TextLine(name) == Line(name, 0, 0, 0)

ArithMnemonics == {"add", "sub", "mul", "udiv"}

\* ------------------------------------------------------------------ state
VARIABLES
    D_LLVM_LOCAL_VIRTUAL_REGISTER_NUMBER,  \* the register counter
    loadedRegistersHead,                   \* list of loaded registers, head first
    freeVirtualRegistersHead,              \* stack of free registers, top first
    D_LLVM_FILE,                           \* lines written to the output
    stackEntries,                          \* list of stack entries of the pre-pass
    rc,                                    \* "RC_OK" while running, else the fatal code
    issued,                                \* identifiers returned by get_next_local_virtual_register
    call,                                  \* the last operation called, its arguments and result
    pc,                                    \* position of the translation driver
    ast,                                   \* the expression being translated
    todo,                                  \* pending work of the recursive AST walk
    results,                               \* LLVMValues returned by finished subtrees
    D_INPUT_FILE,                          \* the characters of the input file
    pos,                                   \* number of characters read from the input file
    D_PUT_BACK,                            \* the put-back character, 0 when there is none
    D_LINE_NUMBER,                         \* the scanner's line number
    D_GLOBAL_TOKEN,                        \* the token scanned last
    consumed,                              \* characters returned by next() and not put back
    generatorProgramWritten,               \* the generator program has been compiled
    generatorLLExists,                     \* a file exists at generatorProgramLLFullPath
    log                                    \* messages written by purple_log(LOG_ERROR, ...)

coreVars ==
    <<D_LLVM_LOCAL_VIRTUAL_REGISTER_NUMBER, loadedRegistersHead,
      freeVirtualRegistersHead, D_LLVM_FILE, stackEntries, rc, issued>>
driverVars == <<pc, ast, todo, results>>
scanVars == <<D_INPUT_FILE, pos, D_PUT_BACK, D_LINE_NUMBER, D_GLOBAL_TOKEN, consumed>>
clangVars == <<generatorProgramWritten, generatorLLExists, log>>
vars == <<coreVars, call, driverVars, scanVars, clangVars>>

\* the core state as one record, so that the functions below are operators
Core ==
    [num |-> D_LLVM_LOCAL_VIRTUAL_REGISTER_NUMBER,
     loaded |-> loadedRegistersHead,
     free |-> freeVirtualRegistersHead,
     file |-> D_LLVM_FILE,
     entries |-> stackEntries,
     rc |-> rc,
     issued |-> issued]

SetCore(s) ==
    /\ D_LLVM_LOCAL_VIRTUAL_REGISTER_NUMBER' = s.num
    /\ loadedRegistersHead' = s.loaded
    /\ freeVirtualRegistersHead' = s.free
    /\ D_LLVM_FILE' = s.file
    /\ stackEntries' = s.entries
    /\ rc' = s.rc
    /\ issued' = s.issued

\* ------------------------------------------------------ the core functions
\* fatal(code, ...): the compilation ends with the given return code
fatal(s, code) == [s EXCEPT !.rc = code]

\* get_next_local_virtual_register without the increment
get_next_local_virtual_register_no_increment(s) ==
    [s |-> [s EXCEPT !.issued = Append(s.issued, s.num)], ret |-> s.num]

\* return D_LLVM_LOCAL_VIRTUAL_REGISTER_NUMBER++;
get_next_local_virtual_register(s) ==
    [s |-> [s EXCEPT !.num = s.num + 1, !.issued = Append(s.issued, s.num)],
     ret |-> s.num]

\* prepend_loaded whose new node does not link to the old head
prepend_loaded_unlinked(s, reg) == [s EXCEPT !.loaded = <<reg>>]

\* new->next = loadedRegistersHead; loadedRegistersHead = new;
prepend_loaded(s, reg) == [s EXCEPT !.loaded = <<reg>> \o s.loaded]

fprintf(s, line) == [s EXCEPT !.file = Append(s.file, line)]

\* the while/for loops of llvm_ensure_registers_loaded: list is the rest of
\* the loaded list from `current`, i the index of the for loop (1-based)
RECURSIVE ScanLoaded(_, _, _, _, _)
ScanLoaded(list, i, registers, found_registers, found) ==
    IF list = <<>>
    THEN [null |-> FALSE, found_registers |-> found_registers]
    ELSE IF i > Len(registers)
    THEN ScanLoaded(Tail(list), 1, registers, found_registers, found)
    ELSE LET hit == ~found_registers[i] /\ Head(list) = registers[i]
             fr == IF hit THEN [found_registers EXCEPT ![i] = TRUE]
                          ELSE found_registers
             f == IF hit THEN found + 1 ELSE found
         IN  IF f = Len(registers)
             THEN [null |-> TRUE, found_registers |-> fr]
             ELSE ScanLoaded(list, i + 1, registers, fr, f)

\* the second for loop: load every register not found
RECURSIVE LoadMissing(_, _, _, _, _)
LoadMissing(s, i, registers, found_registers, loaded_registers) ==
    IF i > Len(registers)
    THEN [s |-> s, null |-> FALSE, loaded_registers |-> loaded_registers]
    ELSE IF found_registers[i]
    THEN LoadMissing(s, i + 1, registers, found_registers,
                     Append(loaded_registers, registers[i]))
    ELSE LET g == get_next_local_virtual_register(s)
             s2 == prepend_loaded(fprintf(g.s, LoadLine(g.ret, registers[i])), g.ret)
         IN  LoadMissing(s2, i + 1, registers, found_registers,
                         Append(loaded_registers, g.ret))

\* garbage: the indeterminate initial contents of bool found_registers[n_registers]
llvm_ensure_registers_loaded(s, registers, garbage) ==
    LET scan == ScanLoaded(s.loaded, 1, registers, garbage, 0)
    IN  IF scan.null
        THEN [s |-> s, null |-> TRUE, loaded_registers |-> <<>>]
        ELSE LoadMissing(s, 1, registers, scan.found_registers, <<>>)

\* llvm_add .. llvm_divide: one line "%new = <mnemonic> %left, %right", the
\* new register taken from the counter inside the fprintf argument list
llvm_add(s, left, right) ==
    LET g == get_next_local_virtual_register(s)
        s2 == fprintf(g.s, ArithLine("add", g.ret, left.reg, right.reg))
    IN  [s |-> s2, ret |-> s2.num - 1]

\* llvm_subtract with its operands exchanged
llvm_subtract_swapped(s, left, right) ==
    LET g == get_next_local_virtual_register(s)
        s2 == fprintf(g.s, ArithLine("sub", g.ret, right.reg, left.reg))
    IN  [s |-> s2, ret |-> s2.num - 1]

llvm_subtract(s, left, right) ==
    LET g == get_next_local_virtual_register(s)
        s2 == fprintf(g.s, ArithLine("sub", g.ret, left.reg, right.reg))
    IN  [s |-> s2, ret |-> s2.num - 1]

llvm_multiply(s, left, right) ==
    LET g == get_next_local_virtual_register(s)
        s2 == fprintf(g.s, ArithLine("mul", g.ret, left.reg, right.reg))
    IN  [s |-> s2, ret |-> s2.num - 1]

llvm_divide(s, left, right) ==
    LET g == get_next_local_virtual_register(s)
        s2 == fprintf(g.s, ArithLine("udiv", g.ret, left.reg, right.reg))
    IN  [s |-> s2, ret |-> s2.num - 1]

\* llvm_binary_arithmetic whose T_EXPONENT case falls through to multiplication
llvm_binary_arithmetic_exponent_multiplies(s, operation, left, right) ==
    IF operation \in BinaryArithmeticTokens \cup {"T_EXPONENT"}
    THEN LET r == CASE operation = "T_PLUS" -> llvm_add(s, left, right)
                    [] operation = "T_MINUS" -> llvm_subtract(s, left, right)
                    [] operation = "T_STAR" -> llvm_multiply(s, left, right)
                    [] operation = "T_SLASH" -> llvm_divide(s, left, right)
                    [] operation = "T_EXPONENT" -> llvm_multiply(s, left, right)
         IN  [s |-> prepend_loaded(r.s, r.ret), ret |-> LLVMVALUE_VIRTUAL_REGISTER(r.ret)]
    ELSE [s |-> fatal(s, "RC_COMPILER_ERROR"), ret |-> NoValue]

\* llvm_binary_arithmetic without the final prepend_loaded(out_register)
llvm_binary_arithmetic_not_recorded(s, operation, left, right) ==
    IF operation \in BinaryArithmeticTokens
    THEN LET r == CASE operation = "T_PLUS" -> llvm_add(s, left, right)
                    [] operation = "T_MINUS" -> llvm_subtract(s, left, right)
                    [] operation = "T_STAR" -> llvm_multiply(s, left, right)
                    [] operation = "T_SLASH" -> llvm_divide(s, left, right)
         IN  [s |-> r.s, ret |-> LLVMVALUE_VIRTUAL_REGISTER(r.ret)]
    ELSE [s |-> fatal(s, "RC_COMPILER_ERROR"), ret |-> NoValue]

\* the switch of llvm_binary_arithmetic; both fatal branches end the compilation
llvm_binary_arithmetic(s, operation, left, right) ==
    IF operation \in BinaryArithmeticTokens
    THEN LET r == CASE operation = "T_PLUS" -> llvm_add(s, left, right)
                    [] operation = "T_MINUS" -> llvm_subtract(s, left, right)
                    [] operation = "T_STAR" -> llvm_multiply(s, left, right)
                    [] operation = "T_SLASH" -> llvm_divide(s, left, right)
         IN  [s |-> prepend_loaded(r.s, r.ret), ret |-> LLVMVALUE_VIRTUAL_REGISTER(r.ret)]
    ELSE [s |-> fatal(s, "RC_COMPILER_ERROR"), ret |-> NoValue]

\* pop_stack_entry_linked_list(&freeVirtualRegistersHead): the top of the
\* free-register stack, or a new register when the stack is empty
pop_stack_entry_linked_list(s) ==
    IF s.free # <<>>
    THEN [s |-> [s EXCEPT !.free = Tail(s.free)], ret |-> Head(s.free)]
    ELSE get_next_local_virtual_register(s)

\* llvm_store_constant returning a value reference instead of a pointer
llvm_store_constant_value_tagged(s, value) ==
    LET p == pop_stack_entry_linked_list(s)
    IN  [s |-> fprintf(p.s, StoreLine(value, p.ret)),
         ret |-> LLVMVALUE_VIRTUAL_REGISTER(p.ret)]

\* llvm_store_constant that also records its target in the loaded list
llvm_store_constant_recording(s, value) ==
    LET p == pop_stack_entry_linked_list(s)
    IN  [s |-> prepend_loaded(fprintf(p.s, StoreLine(value, p.ret)), p.ret),
         ret |-> LLVMVALUE_VIRTUAL_REGISTER_POINTER(p.ret)]

llvm_store_constant(s, value) ==
    LET p == pop_stack_entry_linked_list(s)
    IN  [s |-> fprintf(p.s, StoreLine(value, p.ret)),
         ret |-> LLVMVALUE_VIRTUAL_REGISTER_POINTER(p.ret)]

\* llvm_print_int without the call of get_next_local_virtual_register
llvm_print_int_no_identifier(s, print_vr) == fprintf(s, CallPrintfLine(print_vr))

llvm_print_int(s, print_vr) ==
    LET g == get_next_local_virtual_register(s)
    IN  fprintf(g.s, CallPrintfLine(print_vr))

\* llvm_stack_allocation that stops after the first entry
llvm_stack_allocation_head_only(s, stack_entries) ==
    IF stack_entries = <<>>
    THEN s
    ELSE fprintf(s, AllocaLine(Head(stack_entries).reg, Head(stack_entries).align_bytes))

\* one alloca per entry, in list order
RECURSIVE llvm_stack_allocation(_, _)
llvm_stack_allocation(s, stack_entries) ==
    IF stack_entries = <<>>
    THEN s
    ELSE llvm_stack_allocation(
             fprintf(s, AllocaLine(Head(stack_entries).reg, Head(stack_entries).align_bytes)),
             Tail(stack_entries))

\* add_free_virtual_register: push on the free-register stack
add_free_virtual_register(s, register_index) ==
    [s EXCEPT !.free = <<register_index>> \o s.free]

\* one stack entry for a literal operand: a new register, appended to the
\* list of entries and pushed on the free-register stack
allocate_stack_slot(s) ==
    LET g == get_next_local_virtual_register(s)
        entry == [reg |-> g.ret, type |-> "NT_INT32", align_bytes |-> numberTypeByteSizes]
    IN  add_free_virtual_register([g.s EXCEPT !.entries = Append(g.s.entries, entry)], g.ret)

\* ------------------------------------------------------------ call records
NoCall ==
    [fn |-> "none", operation |-> "T_EOF", registers |-> <<>>, null |-> FALSE,
     loaded_registers |-> <<>>, left |-> NoValue, right |-> NoValue, value |-> 0,
     ret |-> NoValue, status |-> 0, text |-> "", char |-> 0, line |-> 0,
     process |-> "none"]

\* ------------------------------------------------------------ the scanner
\* characters are their codes as a signed char; fgetc yields EOF at the end
EOF == -1
NUL == 0
NEWLINE == 10
Whitespace == {32, 9, 10, 13, 12}
Digits == <<48, 49, 50, 51, 52, 53, 54, 55, 56, 57>>
Letters == (65..90) \cup (97..122)

\* TTS_PRINT, the one keyword
TTS_PRINT == <<112, 114, 105, 110, 116>>
D_MAX_IDENTIFIER_LENGTH == 255

\* the pieces an input file is made of: \n, space, + - * / ; 1 & x NUL and print
Pieces ==
    {<<10>>, <<32>>, <<43>>, <<45>>, <<42>>, <<47>>, <<59>>, <<49>>, <<38>>, <<120>>,
     <<NUL>>, TTS_PRINT}

RECURSIVE FilesOf(_)
FilesOf(n) ==
    IF n = 0 THEN {<<>>}
    ELSE FilesOf(n - 1) \cup {f \o piece : f \in FilesOf(n - 1), piece \in Pieces}

InputFiles == FilesOf(MaxPieces)

NoToken == [type |-> "T_EOF", value |-> 0]

\* the scanner state as one record; msg is what syntax_error reports
Scanner ==
    [file |-> D_INPUT_FILE, pos |-> pos, put_back |-> D_PUT_BACK, line |-> D_LINE_NUMBER,
     token |-> D_GLOBAL_TOKEN, consumed |-> consumed, rc |-> rc,
     msg |-> [text |-> "", char |-> 0, line |-> 0]]

Front(s) == SubSeq(s, 1, Len(s) - 1)

\* next that counts a newline when it comes out of the put-back buffer too
next_counting_put_back(sc) ==
    IF sc.put_back # 0
    THEN [s |-> [sc EXCEPT !.put_back = 0,
                           !.line = IF sc.put_back = NEWLINE THEN @ + 1 ELSE @,
                           !.consumed = IF sc.put_back = EOF THEN @ ELSE Append(@, sc.put_back)],
          c |-> sc.put_back]
    ELSE IF sc.pos < Len(sc.file)
    THEN LET c == sc.file[sc.pos + 1]
         IN  [s |-> [sc EXCEPT !.pos = @ + 1,
                               !.line = IF c = NEWLINE THEN @ + 1 ELSE @,
                               !.consumed = Append(@, c)],
              c |-> c]
    ELSE [s |-> sc, c |-> EOF]

\* if (D_PUT_BACK) { c = D_PUT_BACK; D_PUT_BACK = 0; return c; }
\* c = fgetc(D_INPUT_FILE); if (c == '\n') D_LINE_NUMBER++;
next(sc) ==
    IF sc.put_back # 0
    THEN [s |-> [sc EXCEPT !.put_back = 0,
                           !.consumed = IF sc.put_back = EOF THEN @ ELSE Append(@, sc.put_back)],
          c |-> sc.put_back]
    ELSE IF sc.pos < Len(sc.file)
    THEN LET c == sc.file[sc.pos + 1]
         IN  [s |-> [sc EXCEPT !.pos = @ + 1,
                               !.line = IF c = NEWLINE THEN @ + 1 ELSE @,
                               !.consumed = Append(@, c)],
              c |-> c]
    ELSE [s |-> sc, c |-> EOF]

\* D_PUT_BACK = c; the character is no longer counted as consumed
put_back_into_stream(sc, c) ==
    [sc EXCEPT !.put_back = c, !.consumed = IF c = EOF THEN @ ELSE Front(@)]

RECURSIVE skip(_)
skip(sc) ==
    LET r == next(sc)
    IN  IF r.c \in Whitespace THEN skip(r.s) ELSE r

\* strchr(s, c) - s, or -1: the terminating NUL of s counts as part of s
index_of(s, c) ==
    IF c = NUL THEN Len(s)
    ELSE IF \E i \in DOMAIN s : s[i] = c
    THEN (CHOOSE i \in DOMAIN s : s[i] = c /\ \A j \in 1..(i - 1) : s[j] # c) - 1
    ELSE -1

RECURSIVE scanint_loop(_, _, _)
scanint_loop(sc, c, val) ==
    LET k == index_of(Digits, c)
    IN  IF k >= 0
        THEN LET r == next(sc) IN scanint_loop(r.s, r.c, val * 10 + k)
        ELSE [s |-> put_back_into_stream(sc, c), val |-> val]

scanint(sc, c) == scanint_loop(sc, c, 0)

isdigit(c) == \E i \in DOMAIN Digits : Digits[i] = c
isalpha(c) == c \in Letters

is_valid_identifier_char(c, index) ==
    (index # 0 /\ isdigit(c)) \/ isalpha(c) \/ c = 95 \/ c = 36

\* syntax_error(D_INPUT_FN, D_LINE_NUMBER, ...): the compilation ends
syntax_error(sc, text, c) ==
    [sc EXCEPT !.rc = "RC_SYNTAX_ERROR",
               !.msg = [text |-> text, char |-> c, line |-> sc.line]]

RECURSIVE scan_identifier_loop(_, _, _, _)
scan_identifier_loop(sc, c, buf, max_len) ==
    IF is_valid_identifier_char(c, Len(buf))
    THEN IF Len(buf) >= max_len - 1
         THEN [s |-> syntax_error(sc, "Identifier name has exceeded maximum length", c),
               buf |-> buf]
         ELSE LET r == next(sc) IN scan_identifier_loop(r.s, r.c, Append(buf, c), max_len)
    ELSE [s |-> put_back_into_stream(sc, c), buf |-> buf]

scan_identifier(sc, c, max_len) == scan_identifier_loop(sc, c, <<>>, max_len)

parse_keyword(keyword_string) ==
    IF keyword_string # <<>> /\ keyword_string[1] = 112 /\ keyword_string = TTS_PRINT
    THEN "T_PRINT"
    ELSE "none"

SetToken(sc, type, value) == [sc EXCEPT !.token = [type |-> type, value |-> value]]

\* scan(&D_GLOBAL_TOKEN)
scan(sc0) ==
    LET r == skip(sc0)
        sc == r.s
        c == r.c
    IN  CASE c = EOF -> [s |-> SetToken(sc, "T_EOF", sc.token.value), ret |-> FALSE]
          [] c = 43 -> [s |-> SetToken(sc, "T_PLUS", sc.token.value), ret |-> TRUE]
          [] c = 45 -> [s |-> SetToken(sc, "T_MINUS", sc.token.value), ret |-> TRUE]
          [] c = 42 ->
               LET r2 == next(sc)
               IN  IF r2.c = 42
                   THEN [s |-> SetToken(r2.s, "T_EXPONENT", sc.token.value), ret |-> TRUE]
                   ELSE [s |-> SetToken(put_back_into_stream(r2.s, r2.c), "T_STAR",
                                        sc.token.value),
                         ret |-> TRUE]
          [] c = 47 -> [s |-> SetToken(sc, "T_SLASH", sc.token.value), ret |-> TRUE]
          [] c = 59 -> [s |-> SetToken(sc, "T_SEMICOLON", sc.token.value), ret |-> TRUE]
          [] OTHER ->
               IF isdigit(c)
               THEN LET i == scanint(sc, c)
                    IN  [s |-> SetToken(i.s, "T_INTEGER_LITERAL", i.val), ret |-> TRUE]
               ELSE IF is_valid_identifier_char(c, 0)
               THEN LET i == scan_identifier(sc, c, D_MAX_IDENTIFIER_LENGTH)
                        temp_type == parse_keyword(i.buf)
                    IN  IF i.s.rc # "RC_OK" THEN [s |-> i.s, ret |-> FALSE]
                        ELSE IF temp_type # "none"
                        THEN [s |-> SetToken(i.s, temp_type, sc.token.value), ret |-> TRUE]
                        ELSE [s |-> syntax_error(i.s, "Unrecognized identifier", c),
                              ret |-> FALSE]
               ELSE [s |-> syntax_error(sc, "Unrecognized token", c), ret |-> FALSE]

\* the scanner and the toolchain probe before they are used
ScannerIdle ==
    /\ D_INPUT_FILE = <<>>
    /\ pos = 0
    /\ D_PUT_BACK = 0
    /\ D_LINE_NUMBER = 0
    /\ D_GLOBAL_TOKEN = NoToken
    /\ consumed = <<>>

ClangIdle ==
    /\ generatorProgramWritten = FALSE
    /\ generatorLLExists = FALSE
    /\ log = <<>>

\* ------------------------------------------- operations called in any order
InBounds(s) == Len(s.file) <= MaxOut

Running == rc = "RC_OK" /\ pc = "api"

EnsureRegistersLoaded ==
    /\ Running
    /\ \E registers \in RegisterArrays :
         \E garbage \in [1..Len(registers) -> BOOLEAN] :
           LET r == llvm_ensure_registers_loaded(Core, registers, garbage)
           IN  /\ InBounds(r.s)
               /\ SetCore(r.s)
               /\ call' = [NoCall EXCEPT !.fn = "llvm_ensure_registers_loaded",
                                         !.registers = registers,
                                         !.null = r.null,
                                         !.loaded_registers = r.loaded_registers]
    /\ UNCHANGED <<driverVars, scanVars, clangVars>>

BinaryArithmetic ==
    /\ Running
    /\ \E operation \in BinaryArithmeticTokens, left \in ValueReferences :
         \E right \in ValueReferences \ {left} :
           LET r == llvm_binary_arithmetic(Core, operation, left, right)
           IN  /\ InBounds(r.s)
               /\ SetCore(r.s)
               /\ call' = [NoCall EXCEPT !.fn = "llvm_binary_arithmetic",
                                         !.operation = operation,
                                         !.left = left,
                                         !.right = right,
                                         !.ret = r.ret]
    /\ UNCHANGED <<driverVars, scanVars, clangVars>>

\* the same function called with a token it does not support; the operands
\* are never read on that path
BinaryArithmeticUnsupported ==
    /\ Running
    /\ \E operation \in UnsupportedTokens :
           LET left == LLVMVALUE_VIRTUAL_REGISTER(1)
               right == LLVMVALUE_VIRTUAL_REGISTER(2)
               r == llvm_binary_arithmetic(Core, operation, left, right)
           IN  /\ InBounds(r.s)
               /\ SetCore(r.s)
               /\ call' = [NoCall EXCEPT !.fn = "llvm_binary_arithmetic",
                                         !.operation = operation,
                                         !.left = left,
                                         !.right = right,
                                         !.ret = r.ret]
    /\ UNCHANGED <<driverVars, scanVars, clangVars>>

StoreConstant ==
    /\ Running
    /\ \E value \in Literals :
           LET r == llvm_store_constant(Core, value)
           IN  /\ InBounds(r.s)
               /\ SetCore(r.s)
               /\ call' = [NoCall EXCEPT !.fn = "llvm_store_constant",
                                         !.value = value,
                                         !.ret = r.ret]
    /\ UNCHANGED <<driverVars, scanVars, clangVars>>

PrintInt ==
    /\ Running
    /\ \E print_vr \in OperandRegisters :
           LET s == llvm_print_int(Core, print_vr)
           IN  /\ InBounds(s)
               /\ SetCore(s)
               /\ call' = [NoCall EXCEPT !.fn = "llvm_print_int",
                                         !.registers = <<print_vr>>]
    /\ UNCHANGED <<driverVars, scanVars, clangVars>>

\* llvm_stack_allocation on the list of stack entries of the pre-pass
StackAllocation ==
    /\ Running
    /\ LET s == llvm_stack_allocation(Core, stackEntries)
       IN  /\ InBounds(s)
           /\ SetCore(s)
           /\ call' = [NoCall EXCEPT !.fn = "llvm_stack_allocation"]
    /\ UNCHANGED <<driverVars, scanVars, clangVars>>

\* the state after initialize_virtual_registers
InitialCore ==
    [num |-> FirstRegister, loaded |-> <<>>, free |-> <<>>, file |-> <<>>,
     entries |-> <<>>, rc |-> "RC_OK", issued |-> <<>>]

\* determine_binary_expression_stack_allocation for n literal operands
RECURSIVE AllocateSlots(_, _)
AllocateSlots(s, n) ==
    IF n = 0 THEN s ELSE AllocateSlots(allocate_stack_slot(s), n - 1)

SetCoreInitially(s) ==
    /\ D_LLVM_LOCAL_VIRTUAL_REGISTER_NUMBER = s.num
    /\ loadedRegistersHead = s.loaded
    /\ freeVirtualRegistersHead = s.free
    /\ D_LLVM_FILE = s.file
    /\ stackEntries = s.entries
    /\ rc = s.rc
    /\ issued = s.issued

\* the operations are called freely after the pre-pass has made stack
\* entries for no literal or for some
Init ==
    /\ \E n \in PreallocatedSlots : SetCoreInitially(AllocateSlots(InitialCore, n))
    /\ call = NoCall
    /\ pc = "api"
    /\ ast = <<>>
    /\ todo = <<>>
    /\ results = <<>>
    /\ ScannerIdle
    /\ ClangIdle

\* --------------------------------------------------- the translation driver
llvm_preamble(s) ==
    LET s1 == fprintf(s, TextLine("ModuleID"))
        s2 == fprintf(s1, TextLine("target datalayout"))
        s3 == fprintf(s2, TextLine("target triple"))
        s4 == fprintf(s3, TextLine("@print_int_fstring"))
        s5 == fprintf(s4, TextLine("; Function Attrs"))
    IN  fprintf(s5, TextLine("define @main"))

PostambleLines ==
    <<"ret", "}", "declare @printf", "attributes #0", "attributes #1",
      "!llvm.module.flags", "!llvm.ident", "!0", "!1", "!2", "!3", "!4", "!5">>

RECURSIVE WriteLines(_, _)
WriteLines(s, names) ==
    IF names = <<>> THEN s ELSE WriteLines(fprintf(s, TextLine(Head(names))), Tail(names))

\* llvm_postamble that closes the function before returning from it
llvm_postamble_brace_first(s) ==
    WriteLines(s, <<"}", "ret">> \o SubSeq(PostambleLines, 3, Len(PostambleLines)))

llvm_postamble(s) == WriteLines(s, PostambleLines)

\* one stack entry per literal leaf, in the order the leaves are met
determine_binary_expression_stack_allocation(s, root) ==
    AllocateSlots(s, CountLeaves(root))

Visit(n) == [kind |-> "visit", node |-> n, operation |-> "T_EOF"]
Ensure == [kind |-> "ensure", node |-> <<>>, operation |-> "T_EOF"]
Arith(o) == [kind |-> "arith", node |-> <<>>, operation |-> o]

IsPointer(v) == v.type = "VIRTUAL_REGISTER_POINTER"

\* the registers of the address-typed values among vs, in order
RECURSIVE AddressRegisters(_)
AddressRegisters(vs) ==
    IF vs = <<>> THEN <<>>
    ELSE IF IsPointer(Head(vs))
         THEN <<Head(vs).reg>> \o AddressRegisters(Tail(vs))
         ELSE AddressRegisters(Tail(vs))

\* vs with its address-typed values replaced, in order, by value references
\* to the registers of loaded
RECURSIVE Resolve(_, _)
Resolve(vs, loaded) ==
    IF vs = <<>> THEN <<>>
    ELSE IF IsPointer(Head(vs))
         THEN <<LLVMVALUE_VIRTUAL_REGISTER(Head(loaded))>> \o Resolve(Tail(vs), Tail(loaded))
         ELSE <<Head(vs)>> \o Resolve(Tail(vs), loaded)

Translating == rc = "RC_OK" /\ pc = "walk" /\ todo # <<>>

DriverPreamble ==
    /\ rc = "RC_OK" /\ pc = "start"
    /\ SetCore(llvm_preamble(Core))
    /\ call' = [NoCall EXCEPT !.fn = "llvm_preamble"]
    /\ pc' = "prepass"
    /\ UNCHANGED <<ast, todo, results>>
    /\ UNCHANGED <<scanVars, clangVars>>

DriverPrePass ==
    /\ rc = "RC_OK" /\ pc = "prepass"
    /\ SetCore(determine_binary_expression_stack_allocation(Core, ast))
    /\ call' = [NoCall EXCEPT !.fn = "determine_binary_expression_stack_allocation"]
    /\ pc' = "alloca"
    /\ UNCHANGED <<ast, todo, results>>
    /\ UNCHANGED <<scanVars, clangVars>>

DriverStackAllocation ==
    /\ rc = "RC_OK" /\ pc = "alloca"
    /\ SetCore(llvm_stack_allocation(Core, stackEntries))
    /\ call' = [NoCall EXCEPT !.fn = "llvm_stack_allocation"]
    /\ pc' = "walk"
    /\ todo' = <<Visit(ast)>>
    /\ UNCHANGED <<ast, results>>
    /\ UNCHANGED <<scanVars, clangVars>>

\* ast_to_llvm on an internal node: the two children first, then the loads,
\* then the arithmetic instruction
DriverDescend ==
    /\ Translating
    /\ Head(todo).kind = "visit" /\ ~IsLeaf(Head(todo).node)
    /\ LET n == Head(todo).node
       IN  todo' = <<Visit(n[2]), Visit(n[3]), Ensure, Arith(n[1])>> \o Tail(todo)
    /\ UNCHANGED <<coreVars, call, pc, ast, results>>
    /\ UNCHANGED <<scanVars, clangVars>>

\* ast_to_llvm on a literal leaf
DriverLeaf ==
    /\ Translating
    /\ Head(todo).kind = "visit" /\ IsLeaf(Head(todo).node)
    /\ LET value == Head(todo).node[2]
           r == llvm_store_constant(Core, value)
       IN  /\ SetCore(r.s)
           /\ call' = [NoCall EXCEPT !.fn = "llvm_store_constant",
                                     !.value = value,
                                     !.ret = r.ret]
           /\ results' = <<r.ret>> \o results
    /\ todo' = Tail(todo)
    /\ UNCHANGED <<pc, ast>>
    /\ UNCHANGED <<scanVars, clangVars>>

\* the address-typed child results go through llvm_ensure_registers_loaded
DriverEnsureLoaded ==
    /\ Translating
    /\ Head(todo).kind = "ensure"
    /\ LET children == <<results[2], results[1]>>
           registers == AddressRegisters(children)
       IN  IF registers = <<>>
           THEN UNCHANGED <<coreVars, call, results>>
           ELSE \E garbage \in [1..Len(registers) -> BOOLEAN] :
                  LET r == llvm_ensure_registers_loaded(Core, registers, garbage)
                      resolved == IF r.null THEN children
                                  ELSE Resolve(children, r.loaded_registers)
                  IN  /\ SetCore(r.s)
                      /\ call' = [NoCall EXCEPT !.fn = "llvm_ensure_registers_loaded",
                                                !.registers = registers,
                                                !.null = r.null,
                                                !.loaded_registers = r.loaded_registers]
                      /\ results' = <<resolved[2], resolved[1]>> \o SubSeq(results, 3, Len(results))
    /\ todo' = Tail(todo)
    /\ UNCHANGED <<pc, ast>>
    /\ UNCHANGED <<scanVars, clangVars>>

DriverArithmetic ==
    /\ Translating
    /\ Head(todo).kind = "arith"
    /\ LET operation == Head(todo).operation
           left == results[2]
           right == results[1]
           r == llvm_binary_arithmetic(Core, operation, left, right)
       IN  /\ SetCore(r.s)
           /\ call' = [NoCall EXCEPT !.fn = "llvm_binary_arithmetic",
                                     !.operation = operation,
                                     !.left = left,
                                     !.right = right,
                                     !.ret = r.ret]
           /\ results' = <<r.ret>> \o SubSeq(results, 3, Len(results))
    /\ todo' = Tail(todo)
    /\ UNCHANGED <<pc, ast>>
    /\ UNCHANGED <<scanVars, clangVars>>

DriverPrint ==
    /\ rc = "RC_OK" /\ pc = "walk" /\ todo = <<>>
    /\ SetCore(llvm_print_int(Core, results[1].reg))
    /\ call' = [NoCall EXCEPT !.fn = "llvm_print_int", !.registers = <<results[1].reg>>]
    /\ pc' = "postamble"
    /\ UNCHANGED <<ast, todo, results>>
    /\ UNCHANGED <<scanVars, clangVars>>

DriverPostamble ==
    /\ rc = "RC_OK" /\ pc = "postamble"
    /\ SetCore(llvm_postamble(Core))
    /\ call' = [NoCall EXCEPT !.fn = "llvm_postamble"]
    /\ pc' = "done"
    /\ UNCHANGED <<ast, todo, results>>
    /\ UNCHANGED <<scanVars, clangVars>>

DriverInit ==
    /\ SetCoreInitially(InitialCore)
    /\ call = NoCall
    /\ pc = "start"
    /\ ast \in ASTs
    /\ todo = <<>>
    /\ results = <<>>
    /\ ScannerIdle
    /\ ClangIdle

DriverNext ==
    \/ DriverPreamble
    \/ DriverPrePass
    \/ DriverStackAllocation
    \/ DriverDescend
    \/ DriverLeaf
    \/ DriverEnsureLoaded
    \/ DriverArithmetic
    \/ DriverPrint
    \/ DriverPostamble

DriverSpec == DriverInit /\ [][DriverNext]_vars

\* ------------------------------------------------- scanning and parsing
SetScanner(sc) ==
    /\ pos' = sc.pos
    /\ D_PUT_BACK' = sc.put_back
    /\ D_LINE_NUMBER' = sc.line
    /\ D_GLOBAL_TOKEN' = sc.token
    /\ consumed' = sc.consumed
    /\ rc' = sc.rc
    /\ UNCHANGED D_INPUT_FILE

ScanCall(sc) ==
    [NoCall EXCEPT !.fn = "scan", !.text = sc.msg.text, !.char = sc.msg.char,
                   !.line = sc.msg.line]

emitterVars ==
    <<D_LLVM_LOCAL_VIRTUAL_REGISTER_NUMBER, loadedRegistersHead,
      freeVirtualRegistersHead, D_LLVM_FILE, stackEntries, issued>>

\* init: the line number, the put-back newline, the input file, the first token
ScanInit ==
    /\ pc = "init" /\ rc = "RC_OK"
    /\ \E opened \in BOOLEAN :
         LET sc == [Scanner EXCEPT !.line = 1, !.put_back = NEWLINE]
             r == IF opened THEN scan(sc).s ELSE fatal(sc, "RC_FILE_ERROR")
         IN  /\ SetScanner(r)
             /\ call' = IF opened THEN ScanCall(r) ELSE [NoCall EXCEPT !.fn = "init"]
    /\ pc' = "operand"
    /\ UNCHANGED <<emitterVars, ast, todo, results, clangVars>>

\* parse_binary_expression at an operand: an integer literal, then the next token
ParseOperand ==
    /\ pc = "operand" /\ rc = "RC_OK"
    /\ IF D_GLOBAL_TOKEN.type = "T_INTEGER_LITERAL"
       THEN LET r == scan(Scanner)
            IN  /\ SetScanner(r.s)
                /\ call' = ScanCall(r.s)
                /\ pc' = "operator"
       ELSE /\ SetScanner(syntax_error(Scanner, "Expected an integer literal", 0))
            /\ call' = [NoCall EXCEPT !.fn = "parse_binary_expression"]
            /\ pc' = pc
    /\ UNCHANGED <<emitterVars, ast, todo, results, clangVars>>

\* parse_binary_expression after an operand: the end of the input, or an
\* operator and then the next token
ParseOperator ==
    /\ pc = "operator" /\ rc = "RC_OK"
    /\ IF D_GLOBAL_TOKEN.type = "T_EOF"
       THEN /\ pc' = "parsed"
            /\ call' = [NoCall EXCEPT !.fn = "parse_binary_expression"]
            /\ UNCHANGED <<scanVars, rc>>
       ELSE IF D_GLOBAL_TOKEN.type \in ASTOperators
       THEN LET r == scan(Scanner)
            IN  /\ SetScanner(r.s)
                /\ call' = ScanCall(r.s)
                /\ pc' = "operand"
       ELSE /\ SetScanner(syntax_error(Scanner, "Expected an operator", 0))
            /\ call' = [NoCall EXCEPT !.fn = "parse_binary_expression"]
            /\ pc' = pc
    /\ UNCHANGED <<emitterVars, ast, todo, results, clangVars>>

\* generate_llvm starts: the output file is opened and the preamble written
GenerateLlvm ==
    /\ pc = "parsed" /\ rc = "RC_OK"
    /\ SetCore(llvm_preamble(Core))
    /\ call' = [NoCall EXCEPT !.fn = "llvm_preamble"]
    /\ pc' = "generating"
    /\ UNCHANGED <<ast, todo, results, scanVars, clangVars>>

\* main before init, on some input file
ScanInitially ==
    /\ SetCoreInitially(InitialCore)
    /\ call = NoCall
    /\ pc = "init"
    /\ ast = <<>>
    /\ todo = <<>>
    /\ results = <<>>
    /\ D_INPUT_FILE \in InputFiles
    /\ pos = 0
    /\ D_PUT_BACK = 0
    /\ D_LINE_NUMBER = 0
    /\ D_GLOBAL_TOKEN = NoToken
    /\ consumed = <<>>
    /\ ClangIdle

ScanNext ==
    \/ ScanInit
    \/ ParseOperand
    \/ ParseOperator
    \/ GenerateLlvm

ScanSpec == ScanInitially /\ [][ScanNext]_vars

\* ------------------------------------------------------ the toolchain probe
\* what the environment does to one call: whether the generator source can be
\* written, whether popen starts a process, what the program does with the
\* NULL stream if not, the result of pclose (-1, 0 or an exit code), and
\* whether a line of the .ll file matches the datalayout pattern
Environments ==
    [writable : BOOLEAN, spawn : {"started", "null"}, null_stream : {"crash", "continue"},
     status : {-1, 0, 1}, matches : BOOLEAN]

Clang ==
    [written |-> generatorProgramWritten, ll |-> generatorLLExists, log |-> log, rc |-> rc]

\* purple_log(LOG_ERROR, ...): the message is written, the caller continues
purple_log(s, message) == [s EXCEPT !.log = Append(@, message)]

\* popen, the fgets loop and pclose; fgets and pclose on a NULL stream are
\* undefined: the program crashes or goes on as if pclose had failed
run_clang(s, env) ==
    IF env.spawn = "null"
    THEN IF env.null_stream = "crash"
         THEN [s |-> [s EXCEPT !.rc = "SIGSEGV"], status |-> -1, process |-> "null"]
         ELSE [s |-> s, status |-> -1, process |-> "null"]
    ELSE [s |-> s, status |-> env.status, process |-> "started"]

create_tmp_generator_program(s, env) ==
    IF ~env.writable
    THEN [s |-> fatal(s, "RC_FILE_ERROR"), status |-> 0, process |-> "none"]
    ELSE LET p == run_clang(s, env)
             s1 == IF p.s.rc # "RC_OK" THEN p.s
                   ELSE IF p.status = -1
                   THEN purple_log(p.s, "clang failed while compiling generator program")
                   ELSE IF p.status # 0
                   THEN purple_log(p.s, "clang exited with return code while compiling generator program")
                   ELSE [p.s EXCEPT !.ll = TRUE]
         IN  [s |-> IF s1.rc = "RC_OK" THEN [s1 EXCEPT !.written = TRUE] ELSE s1,
              status |-> p.status, process |-> p.process]

get_target_datalayout(s, env) ==
    LET g == IF ~s.written THEN create_tmp_generator_program(s, env)
             ELSE [s |-> s, status |-> 0, process |-> "none"]
        r == IF g.s.rc # "RC_OK" THEN [s |-> g.s, out |-> ""]
             ELSE IF ~g.s.ll THEN [s |-> fatal(g.s, "RC_FILE_ERROR"), out |-> ""]
             ELSE IF ~env.matches THEN [s |-> fatal(g.s, "RC_COMPILER_ERROR"), out |-> ""]
             ELSE [s |-> g.s, out |-> "target datalayout"]
    IN  [s |-> r.s, out |-> r.out, status |-> g.status, process |-> g.process]

get_target_triple(s, env) ==
    LET p == run_clang(s, env)
        r == IF p.s.rc # "RC_OK" THEN [s |-> p.s, out |-> ""]
             ELSE IF p.status # 0 THEN [s |-> fatal(p.s, "RC_ERROR"), out |-> ""]
             ELSE [s |-> p.s, out |-> "target triple"]
    IN  [s |-> r.s, out |-> r.out, status |-> p.status, process |-> p.process]

\* clang_compile_llvm that ends the compilation when clang fails
clang_compile_llvm_fatal(s, env) ==
    LET p == run_clang(s, env)
        s1 == IF p.s.rc # "RC_OK" THEN p.s
              ELSE IF p.status # 0 THEN fatal(p.s, "RC_ERROR")
              ELSE p.s
    IN  [s |-> s1, out |-> "", status |-> p.status, process |-> p.process]

clang_compile_llvm(s, env) ==
    LET p == run_clang(s, env)
        s1 == IF p.s.rc # "RC_OK" THEN p.s
              ELSE IF p.status = -1 THEN purple_log(p.s, "clang failed")
              ELSE IF p.status # 0 THEN purple_log(p.s, "clang exited with return code")
              ELSE p.s
    IN  [s |-> s1, out |-> "", status |-> p.status, process |-> p.process]

SetClang(fn, r) ==
    /\ Len(r.s.log) <= MaxLog
    /\ generatorProgramWritten' = r.s.written
    /\ generatorLLExists' = r.s.ll
    /\ log' = r.s.log
    /\ rc' = r.s.rc
    /\ call' = [NoCall EXCEPT !.fn = fn, !.status = r.status, !.text = r.out,
                              !.process = r.process]
    /\ UNCHANGED <<emitterVars, driverVars, scanVars>>

GetTargetDatalayout ==
    /\ rc = "RC_OK" /\ pc = "clang"
    /\ \E env \in Environments : SetClang("get_target_datalayout", get_target_datalayout(Clang, env))

GetTargetTriple ==
    /\ rc = "RC_OK" /\ pc = "clang"
    /\ \E env \in Environments : SetClang("get_target_triple", get_target_triple(Clang, env))

ClangCompileLlvm ==
    /\ rc = "RC_OK" /\ pc = "clang"
    /\ \E env \in Environments : SetClang("clang_compile_llvm", clang_compile_llvm(Clang, env))

\* the .ll file of the generator is in the temporary directory or not
ClangInit ==
    /\ SetCoreInitially(InitialCore)
    /\ call = NoCall
    /\ pc = "clang"
    /\ ast = <<>>
    /\ todo = <<>>
    /\ results = <<>>
    /\ ScannerIdle
    /\ generatorProgramWritten = FALSE
    /\ generatorLLExists \in BOOLEAN
    /\ log = <<>>

ClangNext ==
    \/ GetTargetDatalayout
    \/ GetTargetTriple
    \/ ClangCompileLlvm

ClangSpec == ClangInit /\ [][ClangNext]_vars

Next ==
    \/ EnsureRegistersLoaded
    \/ BinaryArithmetic
    \/ BinaryArithmeticUnsupported
    \/ StoreConstant
    \/ PrintInt
    \/ StackAllocation

Spec == Init /\ [][Next]_vars

\* ================================================================ claims
Range(f) == {f[i] : i \in DOMAIN f}

\* the step just taken is a call of fn
CallOf(fn) == call'.fn = fn /\ vars' # vars

\* the lines a step appends to the output
Appended == SubSeq(D_LLVM_FILE', Len(D_LLVM_FILE) + 1, Len(D_LLVM_FILE'))

LoadsOf(a, file) == {i \in DOMAIN file : file[i].op = "load" /\ file[i].x = a}

ArithmeticResults(file) == {file[i].dst : i \in {j \in DOMAIN file : file[j].op \in ArithMnemonics}}

SlotRegisters == {stackEntries[i].reg : i \in DOMAIN stackEntries}

\* C1: once a load of address register a has been emitted, no later call
\* emits another load of a
C1_NoSecondLoad ==
    [][\A a \in OperandRegisters :
         LoadsOf(a, D_LLVM_FILE) # {} => LoadsOf(a, D_LLVM_FILE') = LoadsOf(a, D_LLVM_FILE)]_vars

\* C2: the identifiers returned by get_next_local_virtual_register are
\* strictly increasing, and the counter is above every identifier issued
C2_StrictlyIncreasing ==
    /\ \A i \in DOMAIN issued : issued[i] < D_LLVM_LOCAL_VIRTUAL_REGISTER_NUMBER
    /\ \A i \in DOMAIN issued : \A j \in DOMAIN issued : i < j => issued[i] < issued[j]

C2_Witness ==
    /\ call.fn = "llvm_print_int"
    /\ Len(issued) >= 2
    /\ \E i \in DOMAIN D_LLVM_FILE : D_LLVM_FILE[i].op \in ArithMnemonics \cup {"load", "store"}

\* the positions of a register array whose register is not in the loaded list
Missing(registers, loaded) == {i \in DOMAIN registers : registers[i] \notin Range(loaded)}

\* C3: a call of llvm_ensure_registers_loaded emits nothing and mints nothing
\* for an input that the loaded list already holds, and for every other input
\* it emits exactly one load from that input into a new register, which it
\* adds to the loaded list and returns
C3_LoadOrReuse ==
    [][CallOf("llvm_ensure_registers_loaded") =>
         LET registers == call'.registers
             missing == Missing(registers, loadedRegistersHead)
         IN  /\ Len(Appended) = Cardinality(missing)
             /\ D_LLVM_LOCAL_VIRTUAL_REGISTER_NUMBER'
                    = D_LLVM_LOCAL_VIRTUAL_REGISTER_NUMBER + Cardinality(missing)
             /\ \A i \in missing :
                    \E j \in DOMAIN Appended :
                       /\ Appended[j].op = "load"
                       /\ Appended[j].x = registers[i]
                       /\ Appended[j].dst >= D_LLVM_LOCAL_VIRTUAL_REGISTER_NUMBER
                       /\ Appended[j].dst \in Range(loadedRegistersHead')
                       /\ ~call'.null => call'.loaded_registers[i] = Appended[j].dst
             /\ \A i \in DOMAIN registers \ missing :
                    ~call'.null => call'.loaded_registers[i] = registers[i]]_vars

\* C4: llvm_ensure_registers_loaded returns a list with one register per
\* input, the i-th being the input itself or the target of a load from it
C4_ResultPerInput ==
    call.fn = "llvm_ensure_registers_loaded" =>
        /\ ~call.null
        /\ Len(call.loaded_registers) = Len(call.registers)
        /\ \A i \in DOMAIN call.registers :
              \/ call.loaded_registers[i] = call.registers[i]
              \/ \E j \in DOMAIN D_LLVM_FILE :
                    /\ D_LLVM_FILE[j].op = "load"
                    /\ D_LLVM_FILE[j].dst = call.loaded_registers[i]
                    /\ D_LLVM_FILE[j].x = call.registers[i]

Mnemonic(operation) ==
    CASE operation = "T_PLUS" -> "add"
      [] operation = "T_MINUS" -> "sub"
      [] operation = "T_STAR" -> "mul"
      [] operation = "T_SLASH" -> "udiv"

\* C5: llvm_binary_arithmetic with + - * / appends exactly one line, whose
\* mnemonic is add, sub, mul or udiv, whose operands are left then right and
\* whose target is a new register, and returns a value reference to that target
C5_OneInstruction ==
    [][(CallOf("llvm_binary_arithmetic") /\ call'.operation \in BinaryArithmeticTokens) =>
         /\ D_LLVM_FILE' = Append(D_LLVM_FILE,
                                  Line(Mnemonic(call'.operation),
                                       D_LLVM_LOCAL_VIRTUAL_REGISTER_NUMBER,
                                       call'.left.reg, call'.right.reg))
         /\ D_LLVM_LOCAL_VIRTUAL_REGISTER_NUMBER \notin Range(issued)
         /\ issued' = Append(issued, D_LLVM_LOCAL_VIRTUAL_REGISTER_NUMBER)
         /\ call'.ret = LLVMVALUE_VIRTUAL_REGISTER(D_LLVM_LOCAL_VIRTUAL_REGISTER_NUMBER)
         /\ rc' = "RC_OK"]_vars

C5_Witness ==
    /\ call.fn = "llvm_binary_arithmetic"
    /\ call.operation = "T_MINUS"
    /\ call.left.reg # call.right.reg
    /\ Len(D_LLVM_FILE) = 2
    /\ D_LLVM_FILE[2].op = "sub"
    /\ D_LLVM_FILE[1].op = "udiv"

\* C6: llvm_binary_arithmetic with T_EXPONENT or a token that is no binary
\* operator ends the compilation with RC_COMPILER_ERROR, writes nothing,
\* mints no register and adds nothing to the loaded list; nothing runs after
C6_UnsupportedIsFatal ==
    [][/\ rc = "RC_OK"
       /\ (CallOf("llvm_binary_arithmetic") /\ call'.operation \notin BinaryArithmeticTokens) =>
            /\ rc' = "RC_COMPILER_ERROR"
            /\ D_LLVM_FILE' = D_LLVM_FILE
            /\ D_LLVM_LOCAL_VIRTUAL_REGISTER_NUMBER' = D_LLVM_LOCAL_VIRTUAL_REGISTER_NUMBER
            /\ issued' = issued
            /\ loadedRegistersHead' = loadedRegistersHead]_vars

C6_Witness ==
    /\ call.fn = "llvm_binary_arithmetic"
    /\ call.operation = "T_EXPONENT"
    /\ rc = "RC_COMPILER_ERROR"
    /\ D_LLVM_FILE # <<>>

BodyOps == ArithMnemonics \cup {"store", "load", "call"}

AllocaLines == SelectSeq(D_LLVM_FILE, LAMBDA l : l.op = "alloca")

\* C7: the output holds one alloca per literal operand once the stack
\* allocation has run, in the order of the stack entries, and every alloca
\* precedes every store, load, arithmetic and call line
C7_AllocasFirst ==
    /\ pc \in {"walk", "postamble", "done"} =>
          /\ Len(AllocaLines) = CountLeaves(ast)
          /\ Len(stackEntries) = CountLeaves(ast)
          /\ \A i \in DOMAIN AllocaLines : AllocaLines[i].dst = stackEntries[i].reg
          /\ \A i \in DOMAIN AllocaLines : AllocaLines[i].dst = FirstRegister + i - 1
    /\ pc \in {"start", "prepass", "alloca"} =>
          \A i \in DOMAIN D_LLVM_FILE : D_LLVM_FILE[i].op \notin BodyOps \cup {"alloca"}
    /\ \A i \in DOMAIN D_LLVM_FILE : \A j \in DOMAIN D_LLVM_FILE :
          (D_LLVM_FILE[i].op = "alloca" /\ D_LLVM_FILE[j].op \in BodyOps) => i < j

C7_Witness ==
    /\ pc = "done"
    /\ CountLeaves(ast) = 3
    /\ Len(AllocaLines) = 3
    /\ \E i \in DOMAIN D_LLVM_FILE : D_LLVM_FILE[i].op = "call"

\* C8: llvm_store_constant takes its target from the free-register stack
\* when that is not empty and from the counter when it is; it appends one
\* store of the literal to the target and returns a pointer to the target
C8_StoreTarget ==
    [][CallOf("llvm_store_constant") =>
         LET target == IF freeVirtualRegistersHead # <<>>
                       THEN Head(freeVirtualRegistersHead)
                       ELSE D_LLVM_LOCAL_VIRTUAL_REGISTER_NUMBER
         IN  /\ IF freeVirtualRegistersHead # <<>>
                THEN /\ freeVirtualRegistersHead' = Tail(freeVirtualRegistersHead)
                     /\ issued' = issued
                ELSE /\ freeVirtualRegistersHead' = <<>>
                     /\ issued' = Append(issued, target)
             /\ D_LLVM_FILE' = Append(D_LLVM_FILE, StoreLine(call'.value, target))
             /\ call'.ret = LLVMVALUE_VIRTUAL_REGISTER_POINTER(target)]_vars

\* a store to a register taken from the stack, then one to a minted register
C8_Witness ==
    /\ call.fn = "llvm_store_constant"
    /\ Len(D_LLVM_FILE) = 2
    /\ D_LLVM_FILE[1].op = "store" /\ D_LLVM_FILE[1].y \in SlotRegisters
    /\ D_LLVM_FILE[2].op = "store" /\ D_LLVM_FILE[2].y \notin SlotRegisters
    /\ call.ret = LLVMVALUE_VIRTUAL_REGISTER_POINTER(D_LLVM_FILE[2].y)

\* C9: every operand handed to llvm_binary_arithmetic is a value reference,
\* and no arithmetic line names the register of a stack slot as an operand
C9_ValueOperandsOnly ==
    /\ call.fn = "llvm_binary_arithmetic" =>
          /\ call.left.type = "VIRTUAL_REGISTER" /\ call.left.reg \notin SlotRegisters
          /\ call.right.type = "VIRTUAL_REGISTER" /\ call.right.reg \notin SlotRegisters
    /\ \A i \in DOMAIN D_LLVM_FILE :
          D_LLVM_FILE[i].op \in ArithMnemonics =>
              D_LLVM_FILE[i].x \notin SlotRegisters /\ D_LLVM_FILE[i].y \notin SlotRegisters

\* C10: the register returned by llvm_binary_arithmetic is in the loaded
\* list, and a later llvm_ensure_registers_loaded emits no load of it, mints
\* no register for it and returns it unchanged
C10_ResultNeverReloaded ==
    [][/\ ArithmeticResults(D_LLVM_FILE') \subseteq Range(loadedRegistersHead')
       /\ CallOf("llvm_ensure_registers_loaded") =>
            LET registers == call'.registers
                computed == {i \in DOMAIN registers :
                                registers[i] \in ArithmeticResults(D_LLVM_FILE)}
            IN  /\ \A i \in computed :
                      /\ \A j \in DOMAIN Appended : Appended[j].x # registers[i]
                      /\ ~call'.null => call'.loaded_registers[i] = registers[i]
                /\ D_LLVM_LOCAL_VIRTUAL_REGISTER_NUMBER' - D_LLVM_LOCAL_VIRTUAL_REGISTER_NUMBER
                      <= Len(registers) - Cardinality(computed)]_vars

\* a call with a computed register and another one, which alone is loaded
C10_Witness ==
    /\ call.fn = "llvm_ensure_registers_loaded"
    /\ Len(call.registers) = 2
    /\ Len(D_LLVM_FILE) = 2
    /\ D_LLVM_FILE[1].op \in ArithMnemonics
    /\ D_LLVM_FILE[2].op = "load"
    /\ D_LLVM_FILE[1].dst \in Range(call.registers)
    /\ D_LLVM_FILE[1].dst # D_LLVM_FILE[2].x

\* ---------------------------------------------- the meaning of the output
\* largest i32, from the byte size of NT_INT32
MaxInt32 == (2 ^ (8 * numberTypeByteSizes - 2) - 1) * 2 + 1

\* v as an i32, for v within one wrap of the i32 range
Wrap32(v) ==
    IF v > MaxInt32 THEN (v - MaxInt32) - MaxInt32 - 2
    ELSE IF v < -MaxInt32 - 1 THEN (v + MaxInt32) + MaxInt32 + 2
    ELSE v

\* udiv on i32 bit patterns held as signed numbers, b # 0
UDiv(a, b) ==
    IF b < 0 THEN (IF a < 0 /\ a >= b THEN 1 ELSE 0)
    ELSE IF a >= 0 THEN a \div b
    ELSE IF b = 1 THEN a
    ELSE LET h == a + MaxInt32 + 1
         IN  (h \div b) + (MaxInt32 \div b) + (((h % b) + (MaxInt32 % b) + 1) \div b)

ArithValue(mnemonic, a, b) ==
    CASE mnemonic = "add" -> Wrap32(a + b)
      [] mnemonic = "sub" -> Wrap32(a - b)
      [] mnemonic = "mul" -> Wrap32(a * b)
      [] mnemonic = "udiv" -> UDiv(a, b)

\* a machine running the function body: the stack slots made by alloca, the
\* i32 registers, what printf has written and the status returned
InitialMachine ==
    [valid |-> TRUE, mem |-> <<>>, val |-> <<>>, out |-> <<>>, status |-> -1]

Invalid(m) == [m EXCEPT !.valid = FALSE]

Defined(m) == DOMAIN m.mem \cup DOMAIN m.val

\* the effect of one line; a line that names a register of the wrong type,
\* reads a slot never stored to or divides by zero makes the run invalid
ExecuteLine(m, l) ==
    CASE l.op = "alloca" ->
           IF l.dst \in Defined(m) THEN Invalid(m)
           ELSE [m EXCEPT !.mem = (l.dst :> [stored |-> FALSE, v |-> 0]) @@ m.mem]
      [] l.op = "store" ->
           IF l.y \notin DOMAIN m.mem THEN Invalid(m)
           ELSE [m EXCEPT !.mem = [m.mem EXCEPT ![l.y] = [stored |-> TRUE, v |-> Wrap32(l.x)]]]
      [] l.op = "load" ->
           IF l.dst \in Defined(m) \/ l.x \notin DOMAIN m.mem THEN Invalid(m)
           ELSE IF ~m.mem[l.x].stored THEN Invalid(m)
           ELSE [m EXCEPT !.val = (l.dst :> m.mem[l.x].v) @@ m.val]
      [] l.op \in ArithMnemonics ->
           IF l.dst \in Defined(m) \/ l.x \notin DOMAIN m.val \/ l.y \notin DOMAIN m.val
           THEN Invalid(m)
           ELSE IF l.op = "udiv" /\ m.val[l.y] = 0 THEN Invalid(m)
           ELSE [m EXCEPT !.val = (l.dst :> ArithValue(l.op, m.val[l.x], m.val[l.y])) @@ m.val]
      [] l.op = "call" ->
           IF l.x \notin DOMAIN m.val THEN Invalid(m)
           ELSE [m EXCEPT !.out = Append(m.out, m.val[l.x])]
      [] l.op = "ret" -> [m EXCEPT !.status = 0]
      [] OTHER -> m

RECURSIVE Execute(_, _)
Execute(m, lines) ==
    IF lines = <<>> \/ ~m.valid \/ m.status = 0 THEN m
    ELSE Execute(ExecuteLine(m, Head(lines)), Tail(lines))

\* the value of a op b on the literals, / being unsigned truncating division
ValueOf(operation, a, b) ==
    CASE operation = "T_PLUS" -> a + b
      [] operation = "T_MINUS" -> a - b
      [] operation = "T_STAR" -> a * b
      [] operation = "T_SLASH" -> a \div b

TwoLiterals(n) == ~IsLeaf(n) /\ IsLeaf(n[2]) /\ IsLeaf(n[3])

\* C11: for an expression a op b of two literals with op one of + - * /, the
\* finished module is well formed, prints exactly the value of a op b and
\* returns status 0
C11_PrintsValue ==
    (pc = "done" /\ TwoLiterals(ast) /\ ast[1] \in BinaryArithmeticTokens) =>
        LET m == Execute(InitialMachine, D_LLVM_FILE)
        IN  /\ m.valid
            /\ m.out = <<ValueOf(ast[1], ast[2][2], ast[3][2])>>
            /\ m.status = 0

\* the lines among ls that define a loaded or computed value
ValueLines(ls) == SelectSeq(ls, LAMBDA l : l.op \in ArithMnemonics \cup {"load"})

IsSuffix(old, new) ==
    /\ Len(old) <= Len(new)
    /\ SubSeq(new, Len(new) - Len(old) + 1, Len(new)) = old

\* C15: every step keeps the loaded list as it was under the entries it adds;
\* only llvm_ensure_registers_loaded and llvm_binary_arithmetic add entries,
\* the former one per load it writes and the latter one per instruction it
\* writes, each entry being the register that line defines
C15_CacheOnlyGrows ==
    [][/\ IsSuffix(loadedRegistersHead, loadedRegistersHead')
       /\ loadedRegistersHead' # loadedRegistersHead =>
             call'.fn \in {"llvm_ensure_registers_loaded", "llvm_binary_arithmetic"}
       /\ Len(loadedRegistersHead') - Len(loadedRegistersHead) = Len(ValueLines(Appended))
       /\ \A i \in DOMAIN ValueLines(Appended) :
             loadedRegistersHead'[Len(ValueLines(Appended)) - i + 1] = ValueLines(Appended)[i].dst
       /\ CallOf("llvm_ensure_registers_loaded") =>
             \A i \in DOMAIN Appended : Appended[i].op = "load"
       /\ CallOf("llvm_binary_arithmetic") =>
             \A i \in DOMAIN Appended : Appended[i].op \in ArithMnemonics]_vars

\* a load entry and, above it, the entry of an arithmetic instruction
C15_Witness ==
    /\ call.fn = "llvm_binary_arithmetic"
    /\ Len(D_LLVM_FILE) = 2
    /\ D_LLVM_FILE[1].op = "load"
    /\ D_LLVM_FILE[2].op \in ArithMnemonics
    /\ loadedRegistersHead = <<D_LLVM_FILE[2].dst, D_LLVM_FILE[1].dst>>

\* module id, datalayout, triple, format-string constant, function header
PreambleNames ==
    <<"ModuleID", "target datalayout", "target triple", "@print_int_fstring",
      "; Function Attrs", "define @main">>

\* return, closing brace, printf declaration, attributes, metadata
PostambleNames ==
    <<"ret", "}", "declare @printf", "attributes #0", "attributes #1",
      "!llvm.module.flags", "!llvm.ident", "!0", "!1", "!2", "!3", "!4", "!5">>

\* the part of the output a line belongs to
Section(l) ==
    CASE l.op \in Range(PreambleNames) -> 1
      [] l.op = "alloca" -> 2
      [] l.op \in ArithMnemonics \cup {"store", "load"} -> 3
      [] l.op = "call" -> 4
      [] l.op \in Range(PostambleNames) -> 5

Ops(file) == [i \in DOMAIN file |-> file[i].op]

\* C16: the output is the preamble, then the stack allocations, then the
\* store, load and arithmetic lines, then the print call, then the postamble;
\* nothing is written before the preamble, no instruction before the stack
\* allocation has run, and a completed pass holds all five parts in full
C16_StreamOrder ==
    /\ \A i \in DOMAIN D_LLVM_FILE : \A j \in DOMAIN D_LLVM_FILE :
          i < j => Section(D_LLVM_FILE[i]) <= Section(D_LLVM_FILE[j])
    /\ pc = "start" => D_LLVM_FILE = <<>>
    /\ pc \in {"prepass", "alloca"} => Ops(D_LLVM_FILE) = PreambleNames
    /\ pc = "walk" =>
          /\ SubSeq(Ops(D_LLVM_FILE), 1, Len(PreambleNames)) = PreambleNames
          /\ \A i \in DOMAIN D_LLVM_FILE : Section(D_LLVM_FILE[i]) <= 3
    /\ pc = "postamble" => Section(D_LLVM_FILE[Len(D_LLVM_FILE)]) = 4
    /\ pc = "done" =>
          LET ops == Ops(D_LLVM_FILE)
              n == Len(ops)
              body == SubSeq(D_LLVM_FILE, Len(PreambleNames) + 1, n - Len(PostambleNames) - 1)
          IN  /\ SubSeq(ops, 1, Len(PreambleNames)) = PreambleNames
              /\ SubSeq(ops, n - Len(PostambleNames) + 1, n) = PostambleNames
              /\ ops[n - Len(PostambleNames)] = "call"
              /\ \A i \in DOMAIN body : Section(body[i]) \in {2, 3}
              /\ Len(SelectSeq(body, LAMBDA l : l.op = "alloca")) = CountLeaves(ast)
              /\ Len(SelectSeq(body, LAMBDA l : l.op = "store")) = CountLeaves(ast)
              /\ Len(SelectSeq(body, LAMBDA l : l.op \in ArithMnemonics)) = CountLeaves(ast) - 1

\* a completed pass over three literals whose body holds loads
C16_Witness ==
    /\ pc = "done"
    /\ rc = "RC_OK"
    /\ CountLeaves(ast) = 3
    /\ D_LLVM_FILE[Len(D_LLVM_FILE)].op = "!5"
    /\ \E i \in DOMAIN D_LLVM_FILE : D_LLVM_FILE[i].op = "load"
    /\ \E i \in DOMAIN D_LLVM_FILE : D_LLVM_FILE[i].op = "udiv"

\* the lines that name the register they define: alloca, load, arithmetic
DefiningLines(file) ==
    SelectSeq(file, LAMBDA l : l.op \in ArithMnemonics \cup {"alloca", "load"})

\* C17: the registers defined by the alloca, load and arithmetic lines are
\* FirstRegister, FirstRegister + 1, ... in the order the lines are written,
\* and the printf call, written last, takes the one identifier after them
C17_GapFreeDefinitions ==
    LET defs == DefiningLines(D_LLVM_FILE)
    IN  /\ \A i \in DOMAIN defs : defs[i].dst = FirstRegister + i - 1
        /\ pc \in {"postamble", "done"} =>
              /\ Len(issued) = Len(defs) + 1
              /\ issued[Len(issued)] = FirstRegister + Len(defs)
              /\ D_LLVM_LOCAL_VIRTUAL_REGISTER_NUMBER = FirstRegister + Len(defs) + 1
              /\ \A i \in DOMAIN D_LLVM_FILE :
                    D_LLVM_FILE[i].op = "call" =>
                        \A j \in DOMAIN D_LLVM_FILE :
                            D_LLVM_FILE[j].op \in ArithMnemonics \cup {"alloca", "load"} => j < i

\* three allocas, three loads, two arithmetic lines and the call
C17_Witness ==
    /\ pc = "done"
    /\ Len(DefiningLines(D_LLVM_FILE)) = 8
    /\ D_LLVM_LOCAL_VIRTUAL_REGISTER_NUMBER = FirstRegister + 9

\* C20: llvm_store_constant changes only the free-register stack, whose top
\* it removes, and the output; llvm_stack_allocation changes only the output;
\* both leave the register counter and the loaded list as they were
C20_StoreAndAllocationFrame ==
    [][/\ CallOf("llvm_store_constant") =>
             /\ D_LLVM_LOCAL_VIRTUAL_REGISTER_NUMBER' = D_LLVM_LOCAL_VIRTUAL_REGISTER_NUMBER
             /\ loadedRegistersHead' = loadedRegistersHead
             /\ stackEntries' = stackEntries
             /\ freeVirtualRegistersHead # <<>>
             /\ freeVirtualRegistersHead' = Tail(freeVirtualRegistersHead)
       /\ CallOf("llvm_stack_allocation") =>
             /\ D_LLVM_LOCAL_VIRTUAL_REGISTER_NUMBER' = D_LLVM_LOCAL_VIRTUAL_REGISTER_NUMBER
             /\ loadedRegistersHead' = loadedRegistersHead
             /\ stackEntries' = stackEntries
             /\ freeVirtualRegistersHead' = freeVirtualRegistersHead]_vars

\* C20 amended: llvm_store_constant leaves the loaded list and the stack
\* entries unchanged; with a non-empty free-register stack it removes the top
\* and leaves the counter unchanged, with an empty one it leaves the stack
\* empty and advances the counter by one; llvm_stack_allocation changes only
\* the output, to which it appends one alloca per stack entry
C20_FrameWithMinting ==
    [][/\ CallOf("llvm_store_constant") =>
             /\ loadedRegistersHead' = loadedRegistersHead
             /\ stackEntries' = stackEntries
             /\ rc' = rc
             /\ Len(D_LLVM_FILE') = Len(D_LLVM_FILE) + 1
             /\ IF freeVirtualRegistersHead # <<>>
                THEN /\ freeVirtualRegistersHead' = Tail(freeVirtualRegistersHead)
                     /\ D_LLVM_LOCAL_VIRTUAL_REGISTER_NUMBER' = D_LLVM_LOCAL_VIRTUAL_REGISTER_NUMBER
                ELSE /\ freeVirtualRegistersHead' = <<>>
                     /\ D_LLVM_LOCAL_VIRTUAL_REGISTER_NUMBER'
                            = D_LLVM_LOCAL_VIRTUAL_REGISTER_NUMBER + 1
       /\ CallOf("llvm_stack_allocation") =>
             /\ D_LLVM_LOCAL_VIRTUAL_REGISTER_NUMBER' = D_LLVM_LOCAL_VIRTUAL_REGISTER_NUMBER
             /\ loadedRegistersHead' = loadedRegistersHead
             /\ stackEntries' = stackEntries
             /\ freeVirtualRegistersHead' = freeVirtualRegistersHead
             /\ rc' = rc
             /\ issued' = issued
             /\ Len(Appended) = Len(stackEntries)
             /\ \A i \in DOMAIN Appended :
                   Appended[i] = AllocaLine(stackEntries[i].reg, stackEntries[i].align_bytes)]_vars

\* the stack allocation has written the one slot, a store has taken it from
\* the free-register stack with the counter where the pre-pass left it
C20_Witness ==
    /\ call.fn = "llvm_store_constant"
    /\ Len(stackEntries) = 1
    /\ D_LLVM_FILE = <<AllocaLine(stackEntries[1].reg, numberTypeByteSizes),
                       StoreLine(call.value, stackEntries[1].reg)>>
    /\ freeVirtualRegistersHead = <<>>
    /\ loadedRegistersHead = <<>>
    /\ D_LLVM_LOCAL_VIRTUAL_REGISTER_NUMBER = FirstRegister + 1

\* ----------------------------------------------------- claims on the scanner
\* the character held by the put-back buffer, if any
Buffer == IF D_PUT_BACK \in {0, EOF} THEN <<>> ELSE <<D_PUT_BACK>>

\* init has run and has opened the input file
Scanning == pc # "init" /\ rc # "RC_FILE_ERROR"

\* the number of characters of the file the scanner has examined
Examined == pos - Len(Buffer)

NewlinesIn(s) == Cardinality({i \in DOMAIN s : s[i] = NEWLINE})

\* whitespace, operator characters, the semicolon, digits, identifier characters
RecognizedCharacters ==
    Whitespace \cup {43, 45, 42, 47, 59} \cup Range(Digits) \cup Letters \cup {95, 36}

\* C12: once the scanner has examined a character that is no whitespace,
\* operator character, semicolon, digit or identifier character, the
\* compilation is in the syntax-error state with a message naming that
\* character and its line, nothing has been written to the output and the
\* generation has not started
C12_UnrecognizedIsSyntaxError ==
    Scanning =>
        \A i \in 1..Examined :
            D_INPUT_FILE[i] \notin RecognizedCharacters =>
                /\ rc = "RC_SYNTAX_ERROR"
                /\ call.fn = "scan"
                /\ call.text = "Unrecognized token"
                /\ call.char = D_INPUT_FILE[i]
                /\ call.line = 1 + NewlinesIn(SubSeq(D_INPUT_FILE, 1, i))
                /\ D_LLVM_FILE = <<>>
                /\ pc # "generating"

\* the last step was a scan that returned a token of the given type
Scanned(type) == call.fn = "scan" /\ rc = "RC_OK" /\ D_GLOBAL_TOKEN.type = type

\* C18: the characters consumed by the scans, followed by the character in
\* the put-back buffer, are the start-up newline and then the characters read
\* from the file, in order; after a T_STAR the character that followed the
\* star is in the buffer for the next scan, and a T_EXPONENT has consumed two
\* stars and left the buffer empty
C18_PutBackLossless ==
    Scanning =>
        /\ consumed \o Buffer = <<NEWLINE>> \o SubSeq(D_INPUT_FILE, 1, pos)
        /\ Scanned("T_STAR") =>
              /\ D_INPUT_FILE[Examined] = 42
              /\ Examined < Len(D_INPUT_FILE) =>
                    /\ D_INPUT_FILE[Examined + 1] # 42
                    /\ Buffer = <<D_INPUT_FILE[Examined + 1]>>
        /\ Scanned("T_EXPONENT") =>
              /\ D_INPUT_FILE[pos - 1] = 42 /\ D_INPUT_FILE[pos] = 42
              /\ Buffer = <<>>

\* C19: once init has run, D_LINE_NUMBER is 1 plus the number of newlines
\* read from the input file; the put-back newline of init and a newline read
\* again from the put-back buffer are not counted
C19_LineNumber ==
    Scanning => D_LINE_NUMBER = 1 + NewlinesIn(SubSeq(D_INPUT_FILE, 1, pos))

\* a newline read ahead by scanint, put back and read again by the next scan
C19_Witness ==
    /\ D_INPUT_FILE = <<49, NEWLINE, 43>>
    /\ Scanned("T_PLUS")
    /\ consumed = <<NEWLINE, 49, NEWLINE, 43>>
    /\ D_LINE_NUMBER = 2

\* ------------------------------------------- claims on the toolchain functions
\* the call just made ran clang, and clang could not be started or did not
\* exit with status 0
ProbeFailed ==
    \/ call'.process = "null"
    \/ call'.process = "started" /\ call'.status # 0

\* C13: a call of get_target_datalayout or get_target_triple whose clang
\* process cannot be started or exits with a non-zero status ends the
\* compilation and returns no string
C13_ProbeFailureIsFatal ==
    [][((CallOf("get_target_datalayout") \/ CallOf("get_target_triple")) /\ ProbeFailed) =>
          /\ rc' # "RC_OK"
          /\ call'.text = ""]_vars

\* C14: a call of clang_compile_llvm whose clang exits with a non-zero
\* status, or whose pclose fails, logs one error and returns with the
\* compilation still running
C14_CompileFailureIsLogged ==
    [][(CallOf("clang_compile_llvm") /\ call'.process = "started" /\ call'.status # 0) =>
          /\ rc' = "RC_OK"
          /\ log' = Append(log, IF call'.status = -1 THEN "clang failed"
                                                      ELSE "clang exited with return code")
          /\ generatorProgramWritten' = generatorProgramWritten
          /\ generatorLLExists' = generatorLLExists]_vars

\* pclose failed in one call and clang exited with a code in the next
C14_Witness ==
    /\ call.fn = "clang_compile_llvm"
    /\ call.process = "started"
    /\ call.status = 1
    /\ rc = "RC_OK"
    /\ log = <<"clang failed", "clang exited with return code">>

====
